---- MODULE Spec2Model ----
(***************************************************************************)
(* Model of the GAPI backend entry point, backend/src/index.ts: an Express *)
(* application with one registered route, GET /health, listening on a      *)
(* fixed port.  Requests are accepted while the server listens, wait in    *)
(* flight, and are dispatched one at a time by the router; a request that  *)
(* matches no route is answered by the router's final handler (404).       *)
(* The handlers read neither the cookie nor any clock and open no outbound *)
(* connection.                                                             *)
(***************************************************************************)
EXTENDS Integers, FiniteSets, Sequences, TLC

\* Upper bound on the number of requests one behaviour receives.
MaxRequests == 2

\* const PORT = 3001
PORT == 3001

Methods == {"GET", "POST"}

\* Paths a client can ask for: the health check and the endpoints the
\* README and the specification name.
DomainPaths == {"/api/coins", "/api/mars-weather", "/api/nasa-tech"}
Paths == {"/health", "/api/session/verify-captcha"} \cup DomainPaths

\* Shapes of the Cookie header a client can send: no session cookie, a
\* malformed token, a token past its expiresAt, a token within it.
Cookies == {"none", "malformed", "expired", "live"}

Requests == [method : Methods, path : Paths, cookie : Cookies]

Ids == 1..MaxRequests

VARIABLES
    listening,      \* app.listen has bound PORT
    log,            \* lines written by console.log
    inflight,       \* id -> request accepted and not yet dispatched
    responses,      \* id -> [req, res] of every answered request
    upstreamCalls   \* outbound HTTP calls issued by the process

vars == <<listening, log, inflight, responses, upstreamCalls>>

\* app.get('/health', handler): the routing table of the application.
Routes == {[method |-> "GET", path |-> "/health"]}

Matches(req) == [method |-> req.method, path |-> req.path] \in Routes

\* Variant of the handler that gates the route on the session cookie.
HealthHandlerGated(req) ==
    IF req.cookie = "live"
    THEN [status |-> 200, contentType |-> "json", json |-> {<<"status", "ok">>}]
    ELSE [status |-> 401, contentType |-> "json", json |-> {}]

\* (_req, res) => { res.json({ status: 'ok' }) }
HealthHandler(req) ==
    [status |-> 200, contentType |-> "json", json |-> {<<"status", "ok">>}]

\* No route matched: Express's final handler answers 404 with an HTML page.
NotFound(req) ==
    [status |-> 404, contentType |-> "html", json |-> {}]

\* The router: first matching route, else the final handler.
Respond(req) == IF Matches(req) THEN HealthHandler(req) ELSE NotFound(req)

Init ==
    /\ listening = FALSE
    /\ log = <<>>
    /\ inflight = [i \in {} |-> 0]
    /\ responses = [i \in {} |-> 0]
    /\ upstreamCalls = 0

\* app.listen(PORT, () => console.log(...))
Listen ==
    /\ ~listening
    /\ listening' = TRUE
    /\ log' = Append(log, <<"Backend running on http://localhost:", PORT>>)
    /\ UNCHANGED <<inflight, responses, upstreamCalls>>

\* A client's request reaches the listening socket.
Receive(id, req) ==
    /\ listening
    /\ id \notin DOMAIN inflight
    /\ id \notin DOMAIN responses
    /\ \A j \in Ids : j < id => (j \in DOMAIN inflight \/ j \in DOMAIN responses)
    /\ inflight' = [i \in DOMAIN inflight \cup {id} |->
                        IF i = id THEN req ELSE inflight[i]]
    /\ UNCHANGED <<listening, log, responses, upstreamCalls>>

\* The application dispatches one in-flight request and sends its response.
Dispatch(id) ==
    /\ id \in DOMAIN inflight
    /\ responses' = [i \in DOMAIN responses \cup {id} |->
                        IF i = id
                        THEN [req |-> inflight[id], res |-> Respond(inflight[id])]
                        ELSE responses[i]]
    /\ inflight' = [i \in DOMAIN inflight \ {id} |-> inflight[i]]
    /\ UNCHANGED <<listening, log, upstreamCalls>>

Next ==
    \/ Listen
    \/ \E id \in Ids, req \in Requests : Receive(id, req)
    \/ \E id \in Ids : Dispatch(id)

Spec == Init /\ [][Next]_vars

----------------------------------------------------------------------------
IsHealth(req) == req.method = "GET" /\ req.path = "/health"
IsDomain(req) == req.path \in DomainPaths
Unauthenticated(req) == req.cookie \in {"none", "malformed", "expired"}
HasOriginTag(res) ==
    \E p \in res.json : p[1] = "origin" /\ p[2] \in {"fresh", "fallback"}

Ok == [status |-> 200, contentType |-> "json", json |-> {<<"status", "ok">>}]

\* C1: every GET /health request is answered 200 with the JSON body
\* {status: 'ok'}, whatever its cookie, whatever was answered before and
\* whatever else is in flight; GET /health is the only route (every other
\* request gets the router's 404); and answering changes neither the
\* listening state, the log nor the number of outbound calls.
C1_HealthAlwaysOk ==
    /\ [](\A id \in DOMAIN responses :
              /\ IsHealth(responses[id].req) => responses[id].res = Ok
              /\ ~IsHealth(responses[id].req) => responses[id].res.status = 404)
    /\ [][(\E id \in Ids : Dispatch(id))
              => UNCHANGED <<listening, log, upstreamCalls>>]_vars

\* Two GET /health requests, the first without a cookie and a later one
\* with a live session cookie, have both been answered.
C1_Witness ==
    \E i, j \in DOMAIN responses :
        /\ i < j
        /\ IsHealth(responses[i].req) /\ IsHealth(responses[j].req)
        /\ responses[i].req.cookie = "none"
        /\ responses[j].req.cookie = "live"

\* C2: a request to a domain endpoint without a live session (no cookie,
\* malformed token, expired session) is answered 401 and causes no
\* upstream call.
C2_UnauthenticatedIs401 ==
    \A id \in DOMAIN responses :
        (IsDomain(responses[id].req) /\ Unauthenticated(responses[id].req))
            => (responses[id].res.status = 401 /\ upstreamCalls = 0)

\* C7: the only error a caller of a domain endpoint ever sees is the
\* authentication failure (401); every other outcome is a successful
\* response.
C7_OnlyAuthErrorVisible ==
    \A id \in DOMAIN responses :
        IsDomain(responses[id].req)
            => responses[id].res.status \in {200, 401}

\* C8: every response the backend sends carries an origin tag, fresh or
\* fallback.
C8_EveryResponseTagged ==
    \A id \in DOMAIN responses : HasOriginTag(responses[id].res)

\* C10: a request to a domain endpoint that has been handled ended in one
\* of the two terminal states: REJECTED(401), or RESPOND with the tagged
\* envelope.
C10_TerminalStates ==
    \A id \in DOMAIN responses :
        IsDomain(responses[id].req) =>
            \/ responses[id].res.status = 401
            \/ (responses[id].res.status = 200 /\ HasOriginTag(responses[id].res))
====
